---- MODULE Spec2Model ----
(***************************************************************************)
(* The API client of kicl-mobile: login, resetPassword and verifyOTP, in   *)
(* its two source variants.                                                *)
(*   "direct"  : src/unnamed/part_000  (login POSTs straight away)         *)
(*   "probing" : src/services/api.ts   (login first HEAD-probes API_URL)   *)
(*                                                                         *)
(* Text is modelled as a sequence of fragments: a message is a tuple of    *)
(* strings, concatenation is \o, equality is tuple equality and            *)
(* String.prototype.includes(needle) is "some fragment is the needle".     *)
(* The fragments used are chosen so that none is a substring of a          *)
(* concatenation of the others.                                            *)
(***************************************************************************)
EXTENDS Integers, Sequences, FiniteSets, TLC

\* Longest thrown / server message, in fragments.
MaxMsgLen == 2

\* ------------------------------------------------------------------ text

FailedToFetch == "Failed to fetch"
NetworkError == "NetworkError"
NetworkRequestFailed == "Network request failed"
AppJson == "application/json"

Fragments == {FailedToFetch, NetworkError, NetworkRequestFailed, "Invalid credentials"}

RECURSIVE SeqsUpTo(_, _)
SeqsUpTo(S, n) ==
    IF n = 0 THEN {<<>>}
    ELSE LET shorter == SeqsUpTo(S, n - 1)
         IN  shorter \cup {Append(s, x) : s \in {t \in shorter : Len(t) = n - 1}, x \in S}

\* Every message text of the model, the empty string "" (<<>>) included.
Messages == SeqsUpTo(Fragments, MaxMsgLen)

\* s.includes(needle)
Includes(s, needle) == \E i \in 1..Len(s) : s[i] = needle

\* A JavaScript value that is either a string or undefined.
Str(s) == [defined |-> TRUE, text |-> s]
Undef == [defined |-> FALSE, text |-> <<>>]
MaybeMessages == {Str(m) : m \in Messages} \cup {Undef}

\* JavaScript truthiness of a string-or-undefined: '' and undefined are falsy.
Truthy(ms) == ms.defined /\ ms.text # <<>>

\* ---------------------------------------------------------- JSON values

\* A parsed value: null, a string, or an object with an optional message
\* property and other properties (content).
JsNull == [type |-> "null", message |-> Undef, content |-> <<>>]
JsString(s) == [type |-> "string", message |-> Undef, content |-> s]
JsObject(msg, others) == [type |-> "object", message |-> msg, content |-> others]

\* The body of a successful login, spec section 3 (LoginPayload).
LoginPayload == JsObject(Undef, <<"token:t1", "user:{id,name,email,role,branch_id}">>)
\* { message: m }
MessagePayload(m) == JsObject(Str(m), <<>>)
EmptyObject == JsObject(Undef, <<>>)

Payloads ==
    {LoginPayload, EmptyObject, JsNull, JsString(<<"pong">>)}
        \cup {MessagePayload(m) : m \in Messages}

\* JSON.stringify, the server's side of the wire.
Serialize(v) ==
    CASE v.type = "null" -> <<"null">>
      [] v.type = "string" -> <<"\"">> \o v.content \o <<"\"">>
      [] v.type = "object" ->
            <<"{">>
            \o (IF v.message.defined
                THEN <<"message:", "\"">> \o v.message.text \o <<"\"">>
                ELSE <<>>)
            \o v.content \o <<"}">>

\* Bodies that are not JSON text: an HTML error page and the empty body.
GarbageBodies == {<<"<html>">>, <<>>}
Bodies == {Serialize(v) : v \in Payloads} \cup GarbageBodies

\* ------------------------------------------------------- thrown values

\* A thrown JavaScript value: an Error of some class with a string message,
\* a plain object (or primitive) whose message may be undefined, or
\* null/undefined ("Nullish"), on which any property access throws.
Thrown(cls, msg) == [cls |-> cls, message |-> msg]
NoThrown == Thrown("none", Undef)
NullishValue == Thrown("Nullish", Undef)

\* What fetch may reject with.
TransportThrows ==
    {Thrown(c, Str(m)) : c \in {"TypeError", "Error"}, m \in Messages}
        \cup {Thrown("Object", ms) : ms \in MaybeMessages}
        \cup {NullishValue}

\* The engine's own errors.
JsonSyntaxError == Thrown("SyntaxError", Str(<<"Unexpected token in JSON">>))
PropertyOfNullError == Thrown("TypeError", Str(<<"Cannot read properties of null">>))
PropertyOfUndefinedError == Thrown("TypeError", Str(<<"Cannot read properties of undefined">>))

\* ------------------------------------------------------------ responses

Statuses == {200, 204, 400, 401, 500}

\* headers.get('content-type'): null when the header is missing.
NoContentType == [present |-> FALSE, text |-> <<>>]
ContentType(s) == [present |-> TRUE, text |-> s]
ContentTypes ==
    {NoContentType, ContentType(<<AppJson>>),
     ContentType(<<AppJson, "; charset=utf-8">>), ContentType(<<"text/html">>)}

Response(status, ct, body) == [status |-> status, contentType |-> ct, body |-> body]
NoResponse == Response(0, NoContentType, <<>>)
Responses == {Response(s, c, b) : s \in Statuses, c \in ContentTypes, b \in Bodies}

\* response.ok
Ok(response) == response.status \in 200..299

\* ------------------------------------------------------------- results

\* ApiResponse<T>: { data?: T; error?: string }
NoData == [defined |-> FALSE, value |-> JsNull]
Data(v) == [defined |-> TRUE, value |-> v]
ApiResponse(data, error) == [data |-> data, error |-> error]
Success(v) == ApiResponse(Data(v), Undef)
Failure(msg) == ApiResponse(NoData, Str(msg))
NoResult == ApiResponse(NoData, Undef)

\* How an async function settles: it returns a result or throws.
Return(r) == [kind |-> "return", result |-> r, thrown |-> NoThrown]
Throw(e) == [kind |-> "throw", result |-> NoResult, thrown |-> e]

\* ------------------------------------------------------- handleResponse

\* contentType?.includes('application/json')
IsJson(ct) == ct.present /\ Includes(ct.text, AppJson)

\* response.json(): the value whose serialization the body is, or a
\* SyntaxError when the body is no JSON text.
ResponseJson(body) ==
    IF \E v \in Payloads : Serialize(v) = body
    THEN Return(Success(CHOOSE v \in Payloads : Serialize(v) = body))
    ELSE Throw(JsonSyntaxError)

\* response.text(): the body as a string.
ResponseText(body) == Return(Success(JsString(body)))

\* Mutant of ReadBody: the body is always read as text.
ReadBody_AlwaysText(isJson, body) == ResponseText(body)

\* const data = isJson ? await response.json() : await response.text();
\* (the value read travels in the data field of a Return)
ReadBody(isJson, body) == IF isJson THEN ResponseJson(body) ELSE ResponseText(body)

\* Mutant of HttpErrorMessage: the status is read from a property the
\* response does not have.
HttpErrorMessage_NoStatus(status) == <<"HTTP error! status: ", "undefined">>

\* `HTTP error! status: ${response.status}`
HttpErrorMessage(status) == <<"HTTP error! status: ", ToString(status)>>

\* if (!response.ok) throw new Error(
\*   isJson && data.message ? data.message : `HTTP error! status: ...`)
\* data.message throws on null; it is evaluated only when isJson holds.
RejectNotOk(isJson, data, status) ==
    IF isJson /\ data.type = "null" THEN Throw(PropertyOfNullError)
    ELSE IF isJson /\ Truthy(data.message)
         THEN Throw(Thrown("Error", Str(data.message.text)))
         ELSE Throw(Thrown("Error", Str(HttpErrorMessage(status))))

\* handleResponse: its catch logs and rethrows, so it settles as its try
\* block does.
handleResponse(response) ==
    LET isJson == IsJson(response.contentType)
        read == ReadBody(isJson, response.body)
    IN  IF read.kind = "throw" THEN read
        ELSE IF ~Ok(response)
             THEN RejectNotOk(isJson, read.result.data.value, response.status)
             ELSE Return(Success(read.result.data.value))

\* ------------------------------------------------------ catch handlers

UnreachableAdvisory(variant) ==
    IF variant = "direct"
    THEN <<"Network error: Unable to reach the server. Please check your internet connection or ensure the server allows requests from this domain.">>
    ELSE <<"Network error: Unable to reach the server. Please check your internet connection or ensure the server allows HTTPS connections.">>

CorsAdvisory(variant) ==
    IF variant = "direct"
    THEN <<"Network error: The server is not accessible. This might be due to CORS configuration or network connectivity issues.">>
    ELSE <<"Network error: The server is not accessible. This might be due to CORS configuration or SSL certificate issues.">>

LoginFallback == <<"An unexpected error occurred while trying to log in. Please try again.">>
ConnectFallback == <<"Failed to connect to the server">>
UnableToConnect == <<"Unable to connect to the server. Please check your internet connection and try again.">>

\* error instanceof TypeError && error.message === 'Failed to fetch'
IsFailedToFetch(error) ==
    error.cls = "TypeError" /\ error.message = Str(<<FailedToFetch>>)

\* Mutant of IsNetworkError: the message is compared, not searched.
IsNetworkError_Exact(variant, msg) ==
    \/ msg = <<NetworkError>>
    \/ variant = "probing" /\ msg = <<NetworkRequestFailed>>

\* error.message.includes('NetworkError')
\*   [ || error.message.includes('Network request failed') ]   (api.ts only)
IsNetworkError(variant, msg) ==
    \/ Includes(msg, NetworkError)
    \/ variant = "probing" /\ Includes(msg, NetworkRequestFailed)

\* Mutant of MessageOr: the fallback is dropped.
MessageOr_NoFallback(ms, fallback) == ms.text

\* error.message || fallback
MessageOr(ms, fallback) == IF Truthy(ms) THEN ms.text ELSE fallback

\* Mutant of loginCatch: the catch block of the other two operations, with
\* no classification.
loginCatch_Unclassified(variant, error) ==
    IF error.cls = "Nullish" THEN Throw(PropertyOfNullError)
    ELSE Return(Failure(MessageOr(error.message, LoginFallback)))

\* The catch block of login. Reading error.message of null/undefined
\* throws, and so does .includes on an undefined message.
loginCatch(variant, error) ==
    IF error.cls = "Nullish" THEN Throw(PropertyOfNullError)
    ELSE IF IsFailedToFetch(error) THEN Return(Failure(UnreachableAdvisory(variant)))
    ELSE IF ~error.message.defined THEN Throw(PropertyOfUndefinedError)
    ELSE IF IsNetworkError(variant, error.message.text)
         THEN Return(Failure(CorsAdvisory(variant)))
         ELSE Return(Failure(MessageOr(error.message, LoginFallback)))

\* Mutant of plainCatch: login's classification is applied here too.
plainCatch_Classified(error) == loginCatch("direct", error)

\* The catch block of resetPassword and of verifyOTP.
plainCatch(error) ==
    IF error.cls = "Nullish" THEN Throw(PropertyOfNullError)
    ELSE Return(Failure(MessageOr(error.message, ConnectFallback)))

catch(variant, op, error) ==
    IF op = "login" THEN loginCatch(variant, error) ELSE plainCatch(error)

\* ------------------------------------------------------------- requests

Variants == {"direct", "probing"}
Operations == {"login", "resetPassword", "verifyOTP"}
\* Platform.OS
Platforms == {"web", "ios", "android"}

Emails == {"a@b.com"}
\* The password of login, the otp of verifyOTP.
Secrets == {"secret", "000000"}

ApiUrl == "https://devkicl.duckdns.org/api"
Origin == "window.location.origin"

Path(op) ==
    CASE op = "login" -> "/login"
      [] op = "resetPassword" -> "/reset-password"
      [] op = "verifyOTP" -> "/verify-otp"

\* JSON.stringify({ email, password }) / ({ email }) / ({ email, otp })
RequestBody(op, email, secret) ==
    CASE op = "login" -> <<<<"email", email>>, <<"password", secret>>>>
      [] op = "resetPassword" -> <<<<"email", email>>>>
      [] op = "verifyOTP" -> <<<<"email", email>>, <<"otp", secret>>>>

\* Mutant of PostHeaders: the Accept header is left out.
PostHeaders_NoAccept(platform) ==
    {<<"Content-Type", AppJson>>}
        \cup (IF platform = "web" THEN {<<"Origin", Origin>>} ELSE {})

\* headers, with Origin added on web
PostHeaders(platform) ==
    {<<"Content-Type", AppJson>>, <<"Accept", AppJson>>}
        \cup (IF platform = "web" THEN {<<"Origin", Origin>>} ELSE {})

\* Mutant of Credentials: credentials are always included.
Credentials_AlwaysInclude(platform) == "include"

\* credentials: Platform.OS === 'web' ? 'include' : 'omit'
Credentials(platform) == IF platform = "web" THEN "include" ELSE "omit"

\* mode: Platform.OS === 'web' ? 'cors' : undefined
Mode(platform) == IF platform = "web" THEN "cors" ELSE "undefined"

\* The fetch of an operation's POST.
PostRequest(op, platform, email, secret) ==
    [method |-> "POST", url |-> <<ApiUrl, Path(op)>>,
     headers |-> PostHeaders(platform),
     credentials |-> Credentials(platform), mode |-> Mode(platform),
     body |-> RequestBody(op, email, secret)]

\* headers: Platform.OS === 'web' ? { 'Origin': ... } : undefined
ProbeHeaders(platform) == IF platform = "web" THEN {<<"Origin", Origin>>} ELSE {}

\* The fetch of checkServerConnection; it names no credentials.
ProbeRequest(platform) ==
    [method |-> "HEAD", url |-> <<ApiUrl>>,
     headers |-> ProbeHeaders(platform),
     credentials |-> "undefined", mode |-> Mode(platform), body |-> <<>>]

\* login of api.ts probes first.
Probes(variant, op) == variant = "probing" /\ op = "login"

\* What a HEAD is answered with: a status and no body.
ProbeResponses == {Response(s, NoContentType, <<>>) : s \in Statuses}

\* --------------------------------------------------------------- state

\* How a fetch settled.
Pending == [kind |-> "none", response |-> NoResponse, thrown |-> NoThrown]
Resolved(r) == [kind |-> "response", response |-> r, thrown |-> NoThrown]
Rejected(e) == [kind |-> "rejected", response |-> NoResponse, thrown |-> e]
Unsettled == [kind |-> "none", result |-> NoResult, thrown |-> NoThrown]

NoCall == [variant |-> "none", op |-> "none", platform |-> "none",
           email |-> "", secret |-> ""]

VARIABLES
    pc,         \* "idle", "probe" (HEAD in flight), "post" (POST in flight), "settled"
    call,       \* the invocation: variant, op, platform, email, secret
    requests,   \* the requests the invocation has issued, in order
    probe,      \* how the HEAD probe settled
    post,       \* how the POST settled
    settled     \* how the operation's promise settled

vars == <<pc, call, requests, probe, post, settled>>

\* Several invocations in flight at once (the caller does not await one
\* before starting the next), and the process they run in.
VARIABLES
    runtime,    \* the process: which variant of the client, and Platform.OS
    frames      \* per invocation: its pc, arguments, requests, outcomes, result

concurrentVars == <<runtime, frames>>

\* How many invocations may be in flight at once.
NumCalls == 2
CallIds == 1..NumCalls

\* One invocation's own state: the locals of its async function.
IdleFrame ==
    [pc |-> "idle", call |-> NoCall, requests |-> <<>>,
     probe |-> Pending, post |-> Pending, settled |-> Unsettled]

\* No invocation has been made.
ConcurrentIdle ==
    /\ runtime = [variant |-> "none", platform |-> "none"]
    /\ frames = [i \in CallIds |-> IdleFrame]

\* The order-summary screen (OrderSummaryScreen) and the navigator under it.
\* The screen is opened from the cart; each opening mounts a new instance
\* with fresh state, and a timeout outlives the instance that scheduled it.

\* How many times the screen may be opened.
MaxInstances == 2
\* Cap on the timeouts one instance may schedule.
MaxTimers == 2
Instances == 1..MaxInstances

VARIABLES
    instance,           \* the instance mounted last
    showApprovalModal,  \* its useState(false)
    requestSent,        \* its useState(false)
    timers,             \* setTimeout callbacks not yet run, by scheduling instance, oldest first
    stack,              \* the navigator's routes, the visible one last
    navigations,        \* every router call made so far, in order
    scheduled           \* per instance, how many timeouts it has scheduled

screenVars == <<instance, showApprovalModal, requestSent, timers, stack,
                navigations, scheduled>>

\* The screen before anything is pressed: mounted on top of the cart.
ScreenInit ==
    /\ instance = 1
    /\ showApprovalModal = FALSE
    /\ requestSent = FALSE
    /\ timers = <<>>
    /\ stack = <<"/cart", "/order-summary">>
    /\ navigations = <<>>
    /\ scheduled = [k \in Instances |-> 0]

Init ==
    /\ pc = "idle"
    /\ call = NoCall
    /\ requests = <<>>
    /\ probe = Pending
    /\ post = Pending
    /\ settled = Unsettled
    /\ ConcurrentIdle
    /\ ScreenInit

ThePost == PostRequest(call.op, call.platform, call.email, call.secret)

\* The caller invokes an operation; it runs up to its first await.
Invoke(v, o, p, e, s) ==
    /\ pc = "idle"
    /\ call' = [variant |-> v, op |-> o, platform |-> p, email |-> e, secret |-> s]
    /\ IF Probes(v, o)
       THEN /\ requests' = <<ProbeRequest(p)>>
            /\ pc' = "probe"
       ELSE /\ requests' = <<PostRequest(o, p, e, s)>>
            /\ pc' = "post"
    /\ UNCHANGED <<probe, post, settled>>
    /\ UNCHANGED <<concurrentVars, screenVars>>

\* Mutant of checkServerConnection: any answer counts as reachable.
checkServerConnection_IgnoresStatus(outcome) == outcome.kind = "response"

\* checkServerConnection: response.ok, or false when fetch throws.
checkServerConnection(outcome) ==
    IF outcome.kind = "response" THEN Ok(outcome.response) ELSE FALSE

\* The HEAD settles with `outcome`; login goes on to the POST or returns.
ProbeSettles(outcome) ==
    /\ pc = "probe"
    /\ probe' = outcome
    /\ IF checkServerConnection(outcome)
       THEN /\ requests' = Append(requests, ThePost)
            /\ pc' = "post"
            /\ UNCHANGED settled
       ELSE /\ settled' = Return(Failure(UnableToConnect))
            /\ pc' = "settled"
            /\ UNCHANGED requests
    /\ UNCHANGED <<call, post>>
    /\ UNCHANGED <<concurrentVars, screenVars>>

ProbeResolves == \E r \in ProbeResponses : ProbeSettles(Resolved(r))
ProbeRejects == \E e \in TransportThrows : ProbeSettles(Rejected(e))

\* The rest of the operation once its POST has settled: handleResponse on
\* a response, the catch block on anything thrown on the way.
afterPost(variant, op, outcome) ==
    IF outcome.kind = "rejected" THEN catch(variant, op, outcome.thrown)
    ELSE LET handled == handleResponse(outcome.response)
         IN  IF handled.kind = "throw"
             THEN catch(variant, op, handled.thrown)
             ELSE handled

PostSettles(outcome) ==
    /\ pc = "post"
    /\ post' = outcome
    /\ settled' = afterPost(call.variant, call.op, outcome)
    /\ pc' = "settled"
    /\ UNCHANGED <<call, requests, probe>>
    /\ UNCHANGED <<concurrentVars, screenVars>>

PostResolves == \E r \in Responses : PostSettles(Resolved(r))
PostRejects == \E e \in TransportThrows : PostSettles(Rejected(e))

\* The caller has taken the settled promise; the next call starts afresh
\* (the client keeps nothing between calls).
Consume ==
    /\ pc = "settled"
    /\ pc' = "idle"
    /\ call' = NoCall
    /\ requests' = <<>>
    /\ probe' = Pending
    /\ post' = Pending
    /\ settled' = Unsettled
    /\ UNCHANGED <<concurrentVars, screenVars>>

\* ------------------------------------------------- concurrent calls

\* What the transport answers and throws while calls overlap: the answers
\* and throws that take each path of handleResponse and of the catch blocks.
OverlapResponses ==
    {Response(200, ContentType(<<AppJson>>), Serialize(LoginPayload)),
     Response(401, ContentType(<<AppJson>>), Serialize(MessagePayload(<<"Invalid credentials">>))),
     Response(400, ContentType(<<"text/html">>), <<"<html>">>),
     Response(500, ContentType(<<AppJson>>), <<"<html>">>)}
OverlapThrows ==
    {Thrown("TypeError", Str(<<FailedToFetch>>)),
     Thrown("Error", Str(<<NetworkError>>)),
     NullishValue}
\* Two passwords, so that two logins may differ; one otp (resetPassword
\* takes none and ignores it).
OverlapSecrets(o) == IF o = "login" THEN Secrets ELSE {"000000"}
OverlapProbeResponses == {Response(s, NoContentType, <<>>) : s \in {200, 500}}

\* Mutant of FrameResponse: the response is kept in a module-level variable
\* that every call writes, so a resumed call may go on with another's.
FrameResponse_Shared(fs, i) ==
    IF \E j \in CallIds : j # i /\ fs[j].post.kind = "response"
    THEN fs[CHOOSE j \in CallIds : j # i /\ fs[j].post.kind = "response"].post.response
    ELSE fs[i].post.response

\* The response a resumed handleResponse goes on with: its own parameter.
FrameResponse(fs, i) == fs[i].post.response

ConcurrentInit ==
    /\ runtime \in [variant : Variants, platform : Platforms]
    /\ frames = [i \in CallIds |-> IdleFrame]
    /\ pc = "idle"
    /\ call = NoCall
    /\ requests = <<>>
    /\ probe = Pending
    /\ post = Pending
    /\ settled = Unsettled
    /\ ScreenInit

\* Call i is invoked and runs up to its first await.
StartCall(i, o, e, s) ==
    /\ frames[i].pc = "idle"
    /\ frames' = [frames EXCEPT ![i] =
          [pc |-> IF Probes(runtime.variant, o) THEN "probe" ELSE "post",
           call |-> [variant |-> runtime.variant, op |-> o,
                     platform |-> runtime.platform, email |-> e, secret |-> s],
           requests |-> IF Probes(runtime.variant, o)
                        THEN <<ProbeRequest(runtime.platform)>>
                        ELSE <<PostRequest(o, runtime.platform, e, s)>>,
           probe |-> Pending, post |-> Pending, settled |-> Unsettled]]
    /\ UNCHANGED <<runtime, vars, screenVars>>

\* Call i's HEAD settles.
ProbeOf(i, outcome) ==
    /\ frames[i].pc = "probe"
    /\ frames' = [frames EXCEPT ![i] =
          IF checkServerConnection(outcome)
          THEN [@ EXCEPT !.probe = outcome, !.pc = "post",
                         !.requests = Append(@, PostRequest(frames[i].call.op,
                              frames[i].call.platform, frames[i].call.email,
                              frames[i].call.secret))]
          ELSE [@ EXCEPT !.probe = outcome, !.pc = "settled",
                         !.settled = Return(Failure(UnableToConnect))]]
    /\ UNCHANGED <<runtime, vars, screenVars>>

\* Call i's POST throws: its catch block runs.
PostOfRejects(i, e) ==
    /\ frames[i].pc = "post"
    /\ frames' = [frames EXCEPT ![i] =
          [@ EXCEPT !.post = Rejected(e), !.pc = "settled",
                    !.settled = catch(runtime.variant, frames[i].call.op, e)]]
    /\ UNCHANGED <<runtime, vars, screenVars>>

\* Call i's POST is answered: handleResponse starts and awaits the body.
PostOfResolves(i, r) ==
    /\ frames[i].pc = "post"
    /\ frames' = [frames EXCEPT ![i] = [@ EXCEPT !.post = Resolved(r), !.pc = "body"]]
    /\ UNCHANGED <<runtime, vars, screenVars>>

\* Call i's body read settles: the rest of handleResponse, then the catch
\* block if anything was thrown.
BodyOf(i) ==
    /\ frames[i].pc = "body"
    /\ frames' = [frames EXCEPT ![i] =
          [@ EXCEPT !.pc = "settled",
                    !.settled = afterPost(runtime.variant, frames[i].call.op,
                                          Resolved(FrameResponse(frames, i)))]]
    /\ UNCHANGED <<runtime, vars, screenVars>>

\* The caller takes call i's settled promise.
TakeResult(i) ==
    /\ frames[i].pc = "settled"
    /\ frames' = [frames EXCEPT ![i] = IdleFrame]
    /\ UNCHANGED <<runtime, vars, screenVars>>

ConcurrentNext ==
    \/ \E i \in CallIds, o \in Operations, e \in Emails :
          \E s \in OverlapSecrets(o) : StartCall(i, o, e, s)
    \/ \E i \in CallIds, r \in OverlapProbeResponses : ProbeOf(i, Resolved(r))
    \/ \E i \in CallIds, e \in OverlapThrows : ProbeOf(i, Rejected(e))
    \/ \E i \in CallIds, e \in OverlapThrows : PostOfRejects(i, e)
    \/ \E i \in CallIds, r \in OverlapResponses : PostOfResolves(i, r)
    \/ \E i \in CallIds : BodyOf(i)
    \/ \E i \in CallIds : TakeResult(i)

ConcurrentSpec == ConcurrentInit /\ [][ConcurrentNext]_<<vars, concurrentVars, screenVars>>

\* -------------------------------------------------- order-summary screen

\* The screen is the visible route (its buttons can be pressed).
Visible == stack[Len(stack)] = "/order-summary"

\* router.back(): pops the visible route, if there is one to go back to.
Back(st) == IF Len(st) > 1 THEN SubSeq(st, 1, Len(st) - 1) ELSE st

\* A router call, who made it and from where.
Navigation(what, by, from) == [what |-> what, by |-> by, from |-> from]

\* disabled={requestSent}
RequestDisabled(sent) == sent

\* Continue: onPress={() => setShowApprovalModal(true)}
PressContinue ==
    /\ Visible
    /\ showApprovalModal' = TRUE
    /\ UNCHANGED <<instance, requestSent, timers, stack, navigations, scheduled>>
    /\ UNCHANGED <<vars, concurrentVars>>

\* The modal's X: onPress={() => setShowApprovalModal(false)}
PressClose ==
    /\ Visible /\ showApprovalModal
    /\ showApprovalModal' = FALSE
    /\ UNCHANGED <<instance, requestSent, timers, stack, navigations, scheduled>>
    /\ UNCHANGED <<vars, concurrentVars>>

\* Request Approval: setRequestSent(true); setTimeout(..., 2000)
PressRequestApproval ==
    /\ Visible /\ showApprovalModal
    /\ ~RequestDisabled(requestSent)
    /\ scheduled[instance] < MaxTimers
    /\ requestSent' = TRUE
    /\ timers' = Append(timers, instance)
    /\ scheduled' = [scheduled EXCEPT ![instance] = @ + 1]
    /\ UNCHANGED <<instance, showApprovalModal, stack, navigations>>
    /\ UNCHANGED <<vars, concurrentVars>>

\* Revise Cart: setShowApprovalModal(false); router.back()
PressReviseCart ==
    /\ Visible /\ showApprovalModal
    /\ showApprovalModal' = FALSE
    /\ stack' = Back(stack)
    /\ navigations' = Append(navigations, Navigation("back", instance, "Revise Cart"))
    /\ UNCHANGED <<instance, requestSent, timers, scheduled>>
    /\ UNCHANGED <<vars, concurrentVars>>

\* The header's arrow: onPress={() => router.back()}
PressHeaderBack ==
    /\ Visible
    /\ stack' = Back(stack)
    /\ navigations' = Append(navigations, Navigation("back", instance, "header"))
    /\ UNCHANGED <<instance, showApprovalModal, requestSent, timers, scheduled>>
    /\ UNCHANGED <<vars, concurrentVars>>

\* The oldest timeout runs: setShowApprovalModal(false) (a no-op once its
\* instance is unmounted), then router.push('/orders').
TimerFires ==
    /\ timers # <<>>
    /\ timers' = Tail(timers)
    /\ showApprovalModal' =
          IF Head(timers) = instance /\ (\E i \in 1..Len(stack) : stack[i] = "/order-summary")
          THEN FALSE ELSE showApprovalModal
    /\ stack' = Append(stack, "/orders")
    /\ navigations' = Append(navigations, Navigation("/orders", Head(timers), "timeout"))
    /\ UNCHANGED <<instance, requestSent, scheduled>>
    /\ UNCHANGED <<vars, concurrentVars>>

\* On the orders screen the user goes back to what is under it.
BackFromOrders ==
    /\ stack[Len(stack)] = "/orders"
    /\ stack' = Back(stack)
    /\ UNCHANGED <<instance, showApprovalModal, requestSent, timers, navigations, scheduled>>
    /\ UNCHANGED <<vars, concurrentVars>>

\* From the cart the user opens the summary again: a new instance mounts.
OpenSummary ==
    /\ stack[Len(stack)] = "/cart"
    /\ instance < MaxInstances
    /\ instance' = instance + 1
    /\ showApprovalModal' = FALSE
    /\ requestSent' = FALSE
    /\ stack' = Append(stack, "/order-summary")
    /\ UNCHANGED <<timers, navigations, scheduled>>
    /\ UNCHANGED <<vars, concurrentVars>>

ScreenNext ==
    \/ PressContinue
    \/ PressClose
    \/ PressRequestApproval
    \/ PressReviseCart
    \/ PressHeaderBack
    \/ TimerFires
    \/ BackFromOrders
    \/ OpenSummary

ScreenSpec == Init /\ [][ScreenNext]_<<vars, concurrentVars, screenVars>>

\* ------------------------------------------------------ specification

Next ==
    \/ \E v \in Variants, o \in Operations, p \in Platforms,
          e \in Emails, s \in Secrets : Invoke(v, o, p, e, s)
    \/ ProbeResolves
    \/ ProbeRejects
    \/ PostResolves
    \/ PostRejects
    \/ Consume

Spec == Init /\ [][Next]_<<vars, concurrentVars, screenVars>>

\* -------------------------------------------------------------- claims

Returned == pc = "settled" /\ settled.kind = "return"
PostAnswered == pc = "settled" /\ post.kind = "response"
PostThrew == pc = "settled" /\ post.kind = "rejected"
\* The POST threw a value that has a message (a string, possibly empty).
PostThrewMessage == PostThrew /\ post.thrown.cls # "Nullish" /\ post.thrown.message.defined

\* C1: login, resetPassword and verifyOTP settle by returning a result for
\* every outcome of the transport; no exception escapes to the caller.
\* (Stated as the claim; the catch blocks break it.)
C1_NoExceptionEscapes == pc = "settled" => settled.kind = "return"

\* C2: every returned result has exactly one of data and error populated,
\* and a populated error is a non-empty message.
C2_ExactlyOneField ==
    Returned =>
        /\ settled.result.data.defined # settled.result.error.defined
        /\ settled.result.error.defined => settled.result.error.text # <<>>

\* C2's case: resetPassword's fetch threw an error with the empty message
\* and the operation returned an error result.
C2_Witness ==
    /\ Returned
    /\ call.op = "resetPassword"
    /\ PostThrewMessage /\ post.thrown.message.text = <<>>
    /\ settled.result.error.defined

\* C3: in all three operations a non-2xx JSON answer { message: X } (X not
\* empty) returns Failure(X) exactly; login's classification never rewrites
\* a message that came from the server. (Stated as the claim; login's
\* catch block breaks it.)
C3_ServerMessageVerbatim ==
    \A m \in Messages \ {<<>>} :
        (/\ PostAnswered
         /\ ~Ok(post.response)
         /\ IsJson(post.response.contentType)
         /\ post.response.body = Serialize(MessagePayload(m)))
            => settled = Return(Failure(m))

\* C4: a 2xx answer with a JSON content type and a well-formed payload P
\* returns Success whose data is P, in every operation and both variants.
C4_SuccessRoundTrip ==
    \A P \in Payloads :
        (/\ PostAnswered
         /\ Ok(post.response)
         /\ IsJson(post.response.contentType)
         /\ post.response.body = Serialize(P))
            => settled = Return(Success(P))

\* C4's case: the probing login got the login payload back on a 200.
C4_Witness ==
    /\ PostAnswered
    /\ call.variant = "probing" /\ call.op = "login"
    /\ post.response.status = 200
    /\ IsJson(post.response.contentType)
    /\ post.response.body = Serialize(LoginPayload)
    /\ settled.kind = "return" /\ settled.result.data.defined

\* The answer is JSON text of a value other than null that has no message
\* or an empty one.
JsonWithoutMessage(response) ==
    /\ IsJson(response.contentType)
    /\ \E v \in Payloads :
          Serialize(v) = response.body /\ v.type # "null" /\ ~Truthy(v.message)

\* The answer is JSON text of a value with a non-empty message.
JsonWithMessage(response) ==
    /\ IsJson(response.contentType)
    /\ \E v \in Payloads : Serialize(v) = response.body /\ Truthy(v.message)

ReturnedHttpError ==
    settled = Return(Failure(<<"HTTP error! status: ", ToString(post.response.status)>>))

\* C5 as claimed: a non-2xx answer from which no message can be obtained
\* (non-JSON content type, JSON without a message, JSON with an empty
\* message, or declared JSON that cannot be parsed) returns
\* Failure("HTTP error! status: <code>").
C5_Original ==
    (PostAnswered /\ ~Ok(post.response) /\ ~JsonWithMessage(post.response))
        => ReturnedHttpError

\* C5 amended: a non-2xx answer whose content type is not JSON, or whose
\* body is JSON text of a non-null value without a message or with an empty
\* one, returns Failure("HTTP error! status: <code>") with the answer's
\* own status.
C5_HttpErrorFallback ==
    (/\ PostAnswered
     /\ ~Ok(post.response)
     /\ \/ ~IsJson(post.response.contentType)
        \/ JsonWithoutMessage(post.response))
        => ReturnedHttpError

\* C5's case: verifyOTP got a 400 with an HTML body.
C5_Witness ==
    /\ PostAnswered
    /\ call.op = "verifyOTP"
    /\ post.response.status = 400
    /\ post.response.contentType = ContentType(<<"text/html">>)
    /\ post.response.body = <<"<html>">>
    /\ Returned /\ settled.result.error.defined

\* C6 as claimed: whenever a network call of login (the POST or the probe)
\* throws a value whose message is exactly "Failed to fetch", whatever its
\* type, login returns the unreachable-network advisory.
C6_Original ==
    (/\ pc = "settled"
     /\ call.op = "login"
     /\ \/ PostThrewMessage /\ post.thrown.message.text = <<FailedToFetch>>
        \/ /\ probe.kind = "rejected"
           /\ probe.thrown.message = Str(<<FailedToFetch>>))
        => settled = Return(Failure(UnreachableAdvisory(call.variant)))

\* C6 amended: whenever login's POST throws a TypeError whose message is
\* exactly "Failed to fetch", login returns the unreachable-network
\* advisory of its variant and not the raw message.
C6_FailedToFetchAdvisory ==
    (/\ PostThrew
     /\ call.op = "login"
     /\ post.thrown = Thrown("TypeError", Str(<<FailedToFetch>>)))
        => /\ settled = Return(Failure(UnreachableAdvisory(call.variant)))
           /\ settled.result.error.text # <<FailedToFetch>>

\* C6's case: the direct login's POST threw TypeError("Failed to fetch").
C6_Witness ==
    /\ PostThrew
    /\ call.op = "login" /\ call.variant = "direct"
    /\ post.thrown = Thrown("TypeError", Str(<<FailedToFetch>>))
    /\ Returned

\* C7: whenever login's POST throws a value whose message contains
\* "NetworkError", login returns the CORS/connectivity advisory, which is
\* another text than the unreachable-network advisory.
C7_NetworkErrorAdvisory ==
    (/\ PostThrewMessage
     /\ call.op = "login"
     /\ Includes(post.thrown.message.text, NetworkError))
        => /\ settled = Return(Failure(CorsAdvisory(call.variant)))
           /\ settled.result.error.text # UnreachableAdvisory(call.variant)

\* C7's case: login's POST threw a TypeError whose message has
\* "NetworkError" and more text around it.
C7_Witness ==
    /\ PostThrewMessage
    /\ call.op = "login"
    /\ post.thrown.cls = "TypeError"
    /\ Includes(post.thrown.message.text, NetworkError)
    /\ Len(post.thrown.message.text) > 1
    /\ Returned

\* C8 as claimed: in resetPassword and verifyOTP a thrown error with
\* message M returns Failure(M) verbatim for every M, the empty one
\* included.
C8_Original ==
    (PostThrewMessage /\ call.op \in {"resetPassword", "verifyOTP"})
        => settled = Return(Failure(post.thrown.message.text))

\* C8 amended: in resetPassword and verifyOTP a thrown error with a
\* non-empty message M returns Failure(M) verbatim ("Failed to fetch" and
\* "NetworkError" messages included).
C8_ThrownMessageVerbatim ==
    (/\ PostThrewMessage
     /\ call.op \in {"resetPassword", "verifyOTP"}
     /\ post.thrown.message.text # <<>>)
        => settled = Return(Failure(post.thrown.message.text))

\* C8's case: verifyOTP's POST threw TypeError("Failed to fetch") and the
\* operation returned.
C8_Witness ==
    /\ PostThrew
    /\ call.op = "verifyOTP"
    /\ post.thrown = Thrown("TypeError", Str(<<FailedToFetch>>))
    /\ Returned

HasHeader(request, name) == \E h \in request.headers : h[1] = name
SentJsonHeaders(request) ==
    /\ <<"Content-Type", AppJson>> \in request.headers
    /\ <<"Accept", AppJson>> \in request.headers

\* C9 as claimed: the POST of each operation carries Origin, credentials
\* include and mode cors on web, and on a native platform no Origin and
\* neither a credentials nor a mode value.
C9_Original ==
    \A i \in 1..Len(requests) :
        requests[i].method = "POST" =>
            IF call.platform = "web"
            THEN /\ HasHeader(requests[i], "Origin")
                 /\ requests[i].credentials = "include"
                 /\ requests[i].mode = "cors"
            ELSE /\ ~HasHeader(requests[i], "Origin")
                 /\ requests[i].credentials = "undefined"
                 /\ requests[i].mode = "undefined"

\* C9 amended: the POST of each operation carries Origin, credentials
\* include and mode cors on web; on a native platform it carries no Origin,
\* the explicit credentials value omit, and no mode (undefined).
C9_PlatformOptions ==
    \A i \in 1..Len(requests) :
        requests[i].method = "POST" =>
            IF call.platform = "web"
            THEN /\ HasHeader(requests[i], "Origin")
                 /\ requests[i].credentials = "include"
                 /\ requests[i].mode = "cors"
            ELSE /\ ~HasHeader(requests[i], "Origin")
                 /\ requests[i].credentials = "omit"
                 /\ requests[i].mode = "undefined"

\* C9's case: verifyOTP has issued its POST on a native platform.
C9_Witness ==
    /\ pc = "post"
    /\ call.op = "verifyOTP" /\ call.platform = "android"
    /\ Len(requests) = 1 /\ requests[1].method = "POST"

\* C10 as claimed: every request the client issues carries
\* Content-Type: application/json and Accept: application/json.
C10_Original ==
    \A i \in 1..Len(requests) : SentJsonHeaders(requests[i])

\* C10 amended: every POST the client issues carries both headers; the
\* HEAD probe of the probing login carries neither.
C10_JsonHeaders ==
    \A i \in 1..Len(requests) :
        IF requests[i].method = "POST"
        THEN SentJsonHeaders(requests[i])
        ELSE /\ ~HasHeader(requests[i], "Content-Type")
             /\ ~HasHeader(requests[i], "Accept")

\* C10's case: the probing login has issued its probe and then its POST.
C10_Witness ==
    /\ pc = "post"
    /\ Len(requests) = 2
    /\ requests[1].method = "HEAD" /\ requests[2].method = "POST"

\* What an invocation returns when it runs alone on the same arguments and
\* is given the same outcomes of its own requests.
AloneOutcome(f) ==
    IF f.probe.kind # "none" /\ ~checkServerConnection(f.probe)
    THEN Return(Failure(UnableToConnect))
    ELSE afterPost(f.call.variant, f.call.op, f.post)

\* The requests it issues alone.
AloneRequests(f) ==
    LET thePost == PostRequest(f.call.op, f.call.platform, f.call.email, f.call.secret)
    IN  IF Probes(f.call.variant, f.call.op)
        THEN <<ProbeRequest(f.call.platform)>>
                 \o (IF checkServerConnection(f.probe) THEN <<thePost>> ELSE <<>>)
        ELSE <<thePost>>

\* C11: with several calls in flight, in every interleaving of their
\* network steps, each call's result and requests are those it has when run
\* alone on its own arguments and the outcomes of its own requests.
C11_CallsIndependent ==
    \A i \in CallIds :
        frames[i].pc = "settled" =>
            /\ frames[i].settled = AloneOutcome(frames[i])
            /\ frames[i].requests = AloneRequests(frames[i])

\* C11's case: two logins overlapped; one got its payload, the other a 401,
\* and both have settled.
C11_Witness ==
    /\ frames[1].pc = "settled" /\ frames[2].pc = "settled"
    /\ frames[1].call.op = "login" /\ frames[2].call.op = "login"
    /\ frames[1].call.secret # frames[2].call.secret
    /\ frames[1].settled.result.data.defined
    /\ frames[2].post.kind = "response" /\ frames[2].post.response.status = 401
    /\ frames[2].settled.result.error.defined

\* The HEAD probe has settled with a 2xx answer.
ProbeSucceeded == probe.kind = "response" /\ probe.response.status \in 200..299

\* C12: in the probing variant, login issues its POST to /login only after
\* its HEAD probe has completed with a 2xx status; if the probe throws or
\* answers non-2xx, login returns Failure('Unable to connect to the
\* server. ...') and issues no POST in that call.
C12_ProbeBeforePost ==
    (call.variant = "probing" /\ call.op = "login") =>
        /\ \A i \in 1..Len(requests) :
              requests[i].method = "POST" =>
                  /\ i = 2
                  /\ requests[1].method = "HEAD" /\ requests[1].url = <<ApiUrl>>
                  /\ requests[i].url = <<ApiUrl, "/login">>
                  /\ ProbeSucceeded
        /\ (probe.kind # "none" /\ ~ProbeSucceeded) =>
              /\ settled = Return(Failure(<<"Unable to connect to the server. Please check your internet connection and try again.">>))
              /\ \A i \in 1..Len(requests) : requests[i].method # "POST"

\* C12's case: the probe threw, login has returned and only the HEAD was
\* issued.
C12_Witness ==
    /\ call.variant = "probing" /\ call.op = "login"
    /\ pc = "settled"
    /\ probe.kind = "rejected"
    /\ Len(requests) = 1
    /\ settled.result.error.defined

\* An instance whose Request Approval was pressed keeps requestSent, and no
\* instance schedules more than one delayed navigation to /orders.
ApprovalRequestedOnce ==
    /\ \A k \in Instances : scheduled[k] <= 1
    /\ scheduled[instance] >= 1 => requestSent

\* No router.push('/orders') is made for an instance after that instance
\* was left through Revise Cart.
NoOrdersAfterRevise ==
    \A i, j \in 1..Len(navigations) :
        ~(/\ i < j
          /\ navigations[i].from = "Revise Cart"
          /\ navigations[j].what = "/orders"
          /\ navigations[j].by = navigations[i].by)

\* C13: on the order-summary screen, for any sequence of presses and timer
\* firings, requestSent never returns to false once Request Approval has
\* been pressed, so at most one delayed navigation to /orders is scheduled
\* per screen instance; and once the user has left through Revise Cart, no
\* navigation to /orders happens afterwards. (Stated as the claim; the
\* timeout that Revise Cart leaves pending breaks its second part.)
C13_ApprovalFlow == ApprovalRequestedOnce /\ NoOrdersAfterRevise

====
